---- MODULE Spec2Model ----
(***************************************************************************)
(* Model of verl/utils/reward_score/timber.py: the reward of a solution    *)
(* transcript against a ground truth answer (accuracy + early stopping +   *)
(* repetition penalty).                                                    *)
(*                                                                         *)
(* A Python str is a sequence of characters, each character a one-letter   *)
(* TLA+ string.  Python's None is the one-element sequence None, which no  *)
(* str equals.  A float score is kept in tenths (1.0 is 10, -0.3 is -3).   *)
(* A call's outcome is a record: Ok(v) for a return, Raise(e) for an       *)
(* exception that leaves the function.                                     *)
(***************************************************************************)
EXTENDS Integers, Sequences, FiniteSets, TLC

VARIABLES
  solution_str,         \* compute_score / solution_parsing_nl argument
  ground_truth,         \* compute_score argument
  backtrack_cues,       \* solution_parsing_nl argument
  pc,                   \* position of the running call
  score,                \* compute_score's local accumulator (tenths)
  string_in_last_boxed, \* acc_score's local (line 191)
  acc,                  \* outcome of acc_score
  early,                \* outcome of early_stopping_reward
  rep,                  \* outcome of backtrack_repetition_loss
  ret,                  \* outcome of compute_score
  segments,             \* outcome of solution_parsing_nl
  str1, str2,           \* strip_string / is_equiv arguments
  ss1,                  \* outcome of strip_string(str1)
  ss11,                 \* outcome of strip_string(strip_string(str1))
  eq12, eq21, eq11      \* is_equiv(str1,str2), is_equiv(str2,str1), is_equiv(str1,str1)

vars == <<solution_str, ground_truth, backtrack_cues, pc, score,
          string_in_last_boxed, acc, early, rep, ret, segments,
          str1, str2, ss1, ss11, eq12, eq21, eq11>>

----------------------------------------------------------------------------
(* Values *)

None == <<"<None>">>

Unset == <<"<unset>">>

Ok(v) == [ok |-> TRUE, val |-> v, exc |-> ""]

Raise(e) == [ok |-> FALSE, val |-> <<>>, exc |-> e]

Min(S) == CHOOSE x \in S : \A y \in S : x <= y

Max(S) == CHOOSE x \in S : \A y \in S : x >= y

----------------------------------------------------------------------------
(* BACKTRACK_CUES *)

Cue1 ==
  <<"T","h","i","s"," ","d","o","e","s","n","'","t"," ","s","e","e","m"," ","r","i","g",
    "h","t","."," ","I"," ","a","m"," ","r","e","s","t","a","r","t","i","n","g"," ","f",
    "r","o","m"," ","t","h","e"," ","l","a","s","t"," ","c","o","r","r","e","c","t"," ",
    "s","t","e","p"," ","a","n","d"," ","t","h","i","n","k"," ","a","g","a","i","n",":">>

Cue2 ==
  <<"W","a","i","t",","," ","l","e","t"," ","m","e"," ","t","r","y"," ","a","g","a","i",
    "n",":">>

Cue3 ==
  <<"A","l","t","e","r","n","a","t","i","v","e","l","y",".",".",".">>

Cue4 ==
  <<"F","e","e","l"," ","l","i","k","e"," ","I","'","m"," ","m","i","s","s","i","n","g",
    " ","s","o","m","e","t","h","i","n","g",".">>

Cue5 ==
  <<"H","m","m",".",".",".">>

Cue6 ==
  <<"S","o","m","e","t","h","i","n","g"," ","i","s"," ","o","f","f",","," ","l","e","t",
    " ","m","e"," ","t","r","y"," ","a","g","a","i","n",".">>

BACKTRACK_CUES == <<Cue1, Cue2, Cue3, Cue4, Cue5, Cue6>>

----------------------------------------------------------------------------
(* Python str methods, as the code uses them.  Indices are 1-based; a      *)
(* search that finds nothing returns 0 (Python's -1).                      *)

Whitespace == {" ", "\n"}

UpperCase ==
  <<"A","B","C","D","E","F","G","H","I","J","K","L","M",
    "N","O","P","Q","R","S","T","U","V","W","X","Y","Z">>

LowerCase ==
  <<"a","b","c","d","e","f","g","h","i","j","k","l","m",
    "n","o","p","q","r","s","t","u","v","w","x","y","z">>

\* str.lower() of one character.  DotlessI stands for U+0131, which lower()
\* leaves alone.
DotlessI == "<U+0131>"

LowerChar(c) ==
  IF \E i \in 1..26 : UpperCase[i] = c
  THEN LowerCase[CHOOSE i \in 1..26 : UpperCase[i] = c]
  ELSE c

Lower(s) == [k \in 1..Len(s) |-> LowerChar(s[k])]

\* The character a re.IGNORECASE match compares: Unicode case-insensitive
\* matching also lets "i" match U+0131.
IgnoreCaseChar(c) == IF c = DotlessI THEN "i" ELSE LowerChar(c)

MatchAt(s, pat, i) ==
  /\ i >= 1
  /\ i + Len(pat) - 1 <= Len(s)
  /\ \A k \in 1..Len(pat) : s[i + k - 1] = pat[k]

MatchAtIgnoreCase(s, pat, i) ==
  /\ i >= 1
  /\ i + Len(pat) - 1 <= Len(s)
  /\ \A k \in 1..Len(pat) : IgnoreCaseChar(s[i + k - 1]) = IgnoreCaseChar(pat[k])

\* s.find(pat, from)
Find(s, pat, from) ==
  LET hits == {i \in from..(Len(s) - Len(pat) + 1) : MatchAt(s, pat, i)} IN
  IF hits = {} THEN 0 ELSE Min(hits)

\* s.rfind(pat)
RFind(s, pat) ==
  LET hits == {i \in 1..(Len(s) - Len(pat) + 1) : MatchAt(s, pat, i)} IN
  IF hits = {} THEN 0 ELSE Max(hits)

\* pat in s
Contains(s, pat) == Find(s, pat, 1) # 0

StartsWith(s, pat) == MatchAt(s, pat, 1)

EndsWith(s, pat) == Len(pat) <= Len(s) /\ MatchAt(s, pat, Len(s) - Len(pat) + 1)

\* s[i:] with i a 0-based Python index, i.e. the characters after the first i
Drop(s, i) == SubSeq(s, i + 1, Len(s))

RECURSIVE ReplaceFrom(_, _, _, _)
ReplaceFrom(s, old, new, i) ==
  IF i > Len(s) THEN <<>>
  ELSE IF MatchAt(s, old, i) THEN new \o ReplaceFrom(s, old, new, i + Len(old))
  ELSE <<s[i]>> \o ReplaceFrom(s, old, new, i + 1)

\* s.replace(old, new), old non-empty: non-overlapping, left to right
Replace(s, old, new) == ReplaceFrom(s, old, new, 1)

RECURSIVE SplitFrom(_, _, _, _)
SplitFrom(s, sep, i, cur) ==
  IF i > Len(s) THEN <<cur>>
  ELSE IF MatchAt(s, sep, i) THEN <<cur>> \o SplitFrom(s, sep, i + Len(sep), <<>>)
  ELSE SplitFrom(s, sep, i + 1, Append(cur, s[i]))

\* s.split(sep), sep non-empty
Split(s, sep) == SplitFrom(s, sep, 1, <<>>)

\* s.strip()
Strip(s) ==
  LET keep == {i \in 1..Len(s) : s[i] \notin Whitespace} IN
  IF keep = {} THEN <<>> ELSE SubSeq(s, Min(keep), Max(keep))

----------------------------------------------------------------------------
(* String literals of the source *)

Backslash == "\\"

BOXED == <<Backslash, "b", "o", "x", "e", "d">>

FBOX == <<Backslash, "f", "b", "o", "x">>

BOXED_SPACE == BOXED \o <<" ">>

BOXED_BRACE == BOXED \o <<"{">>

FBOX_BRACE == FBOX \o <<"{">>

FRAC == <<Backslash, "f", "r", "a", "c">>

TFRAC == <<"t", "f", "r", "a", "c">>

DFRAC == <<"d", "f", "r", "a", "c">>

SQRT == <<Backslash, "s", "q", "r", "t">>

LEFT == <<Backslash, "l", "e", "f", "t">>

RIGHT == <<Backslash, "r", "i", "g", "h", "t">>

CIRC == <<"^", Backslash, "c", "i", "r", "c">>

CIRC_BRACED == <<"^", "{", Backslash, "c", "i", "r", "c", "}">>

TEXT_UNITS == <<Backslash, "t", "e", "x", "t", "{", " ">>

Digits == <<"0", "1", "2", "3", "4", "5", "6", "7", "8", "9">>

IsDigit(c) == \E d \in 1..10 : Digits[d] = c

DigitValue(c) == (CHOOSE d \in 1..10 : Digits[d] = c) - 1

----------------------------------------------------------------------------
(* fix_a_slash_b and the int() / format() conversions it relies on *)

RECURSIVE DigitsValue(_)
DigitsValue(ds) ==
  IF ds = <<>> THEN 0
  ELSE 10 * DigitsValue(SubSeq(ds, 1, Len(ds) - 1)) + DigitValue(ds[Len(ds)])

\* int(s): an optional sign and at least one digit
ParseInt(s) ==
  LET signed == Len(s) >= 1 /\ s[1] \in {"+", "-"}
      ds == IF signed THEN Drop(s, 1) ELSE s
  IN IF ds # <<>> /\ \A k \in 1..Len(ds) : IsDigit(ds[k])
     THEN Ok(IF signed /\ s[1] = "-" THEN 0 - DigitsValue(ds) ELSE DigitsValue(ds))
     ELSE Raise("ValueError")

RECURSIVE FormatNat(_)
FormatNat(n) ==
  IF n < 10 THEN <<Digits[n + 1]>>
  ELSE FormatNat(n \div 10) \o <<Digits[(n % 10) + 1]>>

\* str(n) / "{}".format(n)
FormatInt(n) == IF n < 0 THEN <<"-">> \o FormatNat(0 - n) ELSE FormatNat(n)

fix_a_slash_b(string) ==
  LET parts == Split(string, <<"/">>) IN
  IF Len(parts) # 2 THEN string
  ELSE LET a == ParseInt(parts[1])
           b == ParseInt(parts[2])
       IN IF a.ok /\ b.ok
             /\ string = FormatInt(a.val) \o <<"/">> \o FormatInt(b.val)
          THEN FRAC \o <<"{">> \o FormatInt(a.val) \o <<"}", "{">>
                    \o FormatInt(b.val) \o <<"}">>
          ELSE string

----------------------------------------------------------------------------
(* fix_fracs, remove_right_units, fix_sqrt *)

\* The loop of fix_fracs over substrs[k..]; string is the original argument.
RECURSIVE FixFracsLoop(_, _, _, _)
FixFracsLoop(string, substrs, k, new_str) ==
  IF k > Len(substrs) THEN Ok(new_str)
  ELSE LET substr == substrs[k]
           acc1 == new_str \o FRAC
       IN IF substr = <<>> THEN Raise("IndexError")
          ELSE IF substr[1] = "{" THEN FixFracsLoop(string, substrs, k + 1, acc1 \o substr)
          ELSE IF Len(substr) < 2 THEN Ok(string)
          ELSE LET a == substr[1]
                   b == substr[2]
               IN IF b # "{"
                  THEN FixFracsLoop(string, substrs, k + 1,
                         acc1 \o <<"{", a, "}", "{", b, "}">> \o Drop(substr, 2))
                  ELSE FixFracsLoop(string, substrs, k + 1,
                         acc1 \o <<"{", a, "}", b>> \o Drop(substr, 2))

fix_fracs(string) ==
  LET substrs == Split(string, FRAC) IN
  FixFracsLoop(string, substrs, 2, substrs[1])

remove_right_units(string) ==
  IF Contains(string, TEXT_UNITS)
  THEN LET splits == Split(string, TEXT_UNITS) IN
       IF Len(splits) = 2 THEN Ok(splits[1]) ELSE Raise("AssertionError")
  ELSE Ok(string)

RECURSIVE FixSqrtLoop(_, _, _)
FixSqrtLoop(splits, k, new_string) ==
  IF k > Len(splits) THEN Ok(new_string)
  ELSE LET split == splits[k] IN
       IF split = <<>> THEN Raise("IndexError")
       ELSE IF split[1] # "{"
       THEN FixSqrtLoop(splits, k + 1,
              new_string \o SQRT \o <<"{", split[1], "}">> \o Drop(split, 1))
       ELSE FixSqrtLoop(splits, k + 1, new_string \o SQRT \o split)

fix_sqrt(string) ==
  IF ~Contains(string, SQRT) THEN Ok(string)
  ELSE LET splits == Split(string, SQRT) IN FixSqrtLoop(splits, 2, splits[1])

----------------------------------------------------------------------------
(* strip_string *)

\* Lines 337-358: the replacements before remove_right_units.
StripDecorations(string) ==
  LET s1 == Replace(string, <<"\n">>, <<>>)
      s2 == Replace(s1, <<Backslash, "!">>, <<>>)
      s3 == Replace(s2, <<Backslash, Backslash>>, <<Backslash>>)
      s4 == Replace(s3, TFRAC, <<"f", "r", "a", "c">>)
      s5 == Replace(s4, DFRAC, <<"f", "r", "a", "c">>)
      s6 == Replace(s5, LEFT, <<>>)
      s7 == Replace(s6, RIGHT, <<>>)
      s8 == Replace(s7, CIRC_BRACED, <<>>)
      s9 == Replace(s8, CIRC, <<>>)
  IN Replace(s9, <<Backslash, "$">>, <<>>)

\* Lines 364-374 with the brace of line 369 lost: a zero before every point.
StripPercentAndEveryDot(string) ==
  LET s1 == Replace(string, <<Backslash, Backslash, "%">>, <<>>)
      s2 == Replace(s1, <<Backslash, "%">>, <<>>)
      s3 == Replace(s2, <<" ", ".">>, <<" ", "0", ".">>)
  IN Replace(s3, <<".">>, <<"0", ".">>)

\* Lines 364-374: percent signs and the leading zero of a bare decimal point.
StripPercentAndDots(string) ==
  LET s1 == Replace(string, <<Backslash, Backslash, "%">>, <<>>)
      s2 == Replace(s1, <<Backslash, "%">>, <<>>)
      s3 == Replace(s2, <<" ", ".">>, <<" ", "0", ".">>)
  IN Replace(s3, <<"{", ".">>, <<"{", "0", ".">>)

\* Lines 377-378: drop a short left-hand side "k = ".
StripShortLhs(string) ==
  LET parts == Split(string, <<"=">>) IN
  IF Len(parts) = 2 /\ Len(parts[1]) <= 2 THEN parts[2] ELSE string

\* Lines 381-396: fix_sqrt onwards.
StripTail(string) ==
  LET r1 == fix_sqrt(string) IN
  IF ~r1.ok THEN r1
  ELSE LET r2 == fix_fracs(Replace(r1.val, <<" ">>, <<>>)) IN
       IF ~r2.ok THEN r2
       ELSE LET s3 == IF r2.val = <<"0", ".", "5">>
                      THEN FRAC \o <<"{", "1", "}", "{", "2", "}">>
                      ELSE r2.val
            IN Ok(fix_a_slash_b(s3))

strip_string(string) ==
  LET r1 == remove_right_units(StripDecorations(string)) IN
  IF ~r1.ok THEN r1
  ELSE LET s2 == StripPercentAndDots(r1.val) IN
       IF Len(s2) = 0 THEN Ok(s2)
       ELSE LET s3 == IF s2[1] = "." THEN <<"0">> \o s2 ELSE s2
            IN StripTail(StripShortLhs(s3))

\* is_equiv answering False when strip_string fails.
IsEquivNoFallback(a, b) ==
  IF a = None /\ b = None THEN TRUE
  ELSE IF a = None \/ b = None THEN FALSE
  ELSE LET r1 == strip_string(a)
           r2 == strip_string(b)
       IN r1.ok /\ r2.ok /\ r1.val = r2.val

\* is_equiv
is_equiv(a, b) ==
  IF a = None /\ b = None THEN TRUE
  ELSE IF a = None \/ b = None THEN FALSE
  ELSE LET r1 == strip_string(a) IN
       IF ~r1.ok THEN a = b
       ELSE LET r2 == strip_string(b) IN
            IF ~r2.ok THEN a = b ELSE r1.val = r2.val

----------------------------------------------------------------------------
(* remove_boxed, last_boxed_only_string, acc_score *)

remove_boxed(s) ==
  IF StartsWith(s, BOXED_SPACE) THEN Ok(Drop(s, Len(BOXED_SPACE)))
  ELSE IF StartsWith(s, BOXED_BRACE) /\ EndsWith(s, <<"}">>)
  THEN Ok(SubSeq(s, Len(BOXED_BRACE) + 1, Len(s) - 1))
  ELSE IF StartsWith(s, FBOX_BRACE) /\ EndsWith(s, <<"}">>)
  THEN Ok(SubSeq(s, Len(FBOX_BRACE) + 1, Len(s) - 1))
  ELSE Raise("ValueError")

\* The while loop of lines 248-256: the index of the closing brace that
\* brings num_left_braces_open to 0, or 0 when the scan runs off the string.
RECURSIVE BraceScan(_, _, _)
BraceScan(string, i, num_left_braces_open) ==
  IF i > Len(string) THEN 0
  ELSE IF string[i] = "{" THEN BraceScan(string, i + 1, num_left_braces_open + 1)
  ELSE IF string[i] = "}"
  THEN IF num_left_braces_open - 1 = 0 THEN i
       ELSE BraceScan(string, i + 1, num_left_braces_open - 1)
  ELSE BraceScan(string, i + 1, num_left_braces_open)

\* Lines 237-243 searching from the left.
FirstMarkerIdx(string) ==
  LET idx == Find(string, BOXED, 1) IN
  IF idx = 0 THEN Find(string, FBOX, 1) ELSE idx

\* Lines 237-243: where the brace scan starts (0: return None).
LastMarkerIdx(string) ==
  LET idx == RFind(string, BOXED) IN
  IF idx = 0 THEN RFind(string, FBOX) ELSE idx

last_boxed_only_string(string) ==
  IF Contains(string, BOXED_SPACE)
  THEN LET after == Split(string, BOXED_SPACE)
           last == after[Len(after)]
       IN BOXED_SPACE \o Split(last, <<"$">>)[1]
  ELSE LET idx == LastMarkerIdx(string) IN
       IF idx = 0 THEN None
       ELSE LET right_brace_idx == BraceScan(string, idx, 0) IN
            IF right_brace_idx = 0 THEN None
            ELSE SubSeq(string, idx, right_brace_idx)

RECURSIVE get_innermost_content_of(_)
get_innermost_content_of(content) ==
  LET next_content == remove_boxed(content) IN
  IF ~next_content.ok THEN content
  ELSE get_innermost_content_of(next_content.val)

\* acc_score unwrapping every layer instead of exactly one.
AccScoreInnermost(solution, truth) ==
  LET last == last_boxed_only_string(solution) IN
  IF last = None THEN Ok(0)
  ELSE IF is_equiv(get_innermost_content_of(last), truth) THEN Ok(10) ELSE Ok(0)

\* acc_score, in tenths.  An exception inside the try block is caught and
\* leaves retval at 0.0.
acc_score(solution, truth) ==
  LET last == last_boxed_only_string(solution) IN
  IF last = None THEN Ok(0)
  ELSE LET answer == remove_boxed(last) IN
       IF ~answer.ok THEN Ok(0)
       ELSE IF is_equiv(answer.val, truth) THEN Ok(10) ELSE Ok(0)

----------------------------------------------------------------------------
(* _extract_all_boxed_expressions: the regular expression of line 153 *)

\* First index >= p of a character in set, or 0.
NextIn(s, p, set) ==
  LET hits == {q \in p..Len(s) : s[q] \in set} IN
  IF hits = {} THEN 0 ELSE Min(hits)

\* First index >= p of a character not in set, or Len(s) + 1.
NextNotIn(s, p, set) ==
  LET hits == {q \in p..Len(s) : s[q] \notin set} IN
  IF hits = {} THEN Len(s) + 1 ELSE Min(hits)

\* (?:[^{}]|{[^{}]*})*} from index p: the index of the closing brace, or 0.
RECURSIVE BraceBodyEnd(_, _)
BraceBodyEnd(s, p) ==
  IF p > Len(s) THEN 0
  ELSE IF s[p] = "}" THEN p
  ELSE IF s[p] = "{"
  THEN LET q == NextIn(s, p + 1, {"{", "}"}) IN
       IF q # 0 /\ s[q] = "}" THEN BraceBodyEnd(s, q + 1) ELSE 0
  ELSE BraceBodyEnd(s, p + 1)

\* \\boxed{...} or \\fbox{...} at index i: the index of its last character, or 0.
BraceFormEnd(s, i, marker) ==
  IF MatchAt(s, marker \o <<"{">>, i) THEN BraceBodyEnd(s, i + Len(marker) + 1) ELSE 0

\* The lookahead (?=\s*\$|$) at index p.
SpaceFormLookahead(s, p) ==
  \/ LET q == NextNotIn(s, p, Whitespace) IN q <= Len(s) /\ s[q] = "$"
  \/ p = Len(s) + 1
  \/ p = Len(s) /\ s[p] = "\n"

\* \\boxed\s+.*? followed by the lookahead, at index i: the index of the last
\* matched character, or 0.
SpaceFormEnd(s, i) ==
  IF ~(MatchAt(s, BOXED, i) /\ i + Len(BOXED) <= Len(s) /\ s[i + Len(BOXED)] \in Whitespace)
  THEN 0
  ELSE LET c0 == NextNotIn(s, i + Len(BOXED), Whitespace)
           stops == {p \in c0..(Len(s) + 1) :
                       /\ SpaceFormLookahead(s, p)
                       /\ \A q \in c0..(p - 1) : s[q] # "\n"}
       IN IF stops = {} THEN 0 ELSE Min(stops) - 1

\* re.finditer from index i: the matched expressions, left to right.
RECURSIVE FindBoxedFrom(_, _)
FindBoxedFrom(s, i) ==
  IF i > Len(s) THEN <<>>
  ELSE LET e1 == BraceFormEnd(s, i, BOXED)
           e2 == BraceFormEnd(s, i, FBOX)
           e3 == SpaceFormEnd(s, i)
       IN IF e1 # 0 THEN <<SubSeq(s, i, e1)>> \o FindBoxedFrom(s, e1 + 1)
          ELSE IF e2 # 0 THEN <<SubSeq(s, i, e2)>> \o FindBoxedFrom(s, e2 + 1)
          ELSE IF e3 # 0 THEN <<Strip(SubSeq(s, i, e3))>> \o FindBoxedFrom(s, e3 + 1)
          ELSE FindBoxedFrom(s, i + 1)

extract_all_boxed_expressions(solution) == FindBoxedFrom(solution, 1)

RECURSIVE get_innermost_content(_)
get_innermost_content(content) ==
  LET next_content == remove_boxed(content) IN
  IF ~next_content.ok THEN content
  ELSE IF next_content.val = content THEN content
  ELSE get_innermost_content(next_content.val)

\* s without its empty strings, order kept (line 100)
RECURSIVE NonEmpty(_)
NonEmpty(list) ==
  IF list = <<>> THEN <<>>
  ELSE IF list[1] = <<>> THEN NonEmpty(Drop(list, 1))
  ELSE <<list[1]>> \o NonEmpty(Drop(list, 1))

\* innermost_answers of early_stopping_reward (lines 93-100)
InnermostAnswers(solution) ==
  LET raw == extract_all_boxed_expressions(solution) IN
  NonEmpty([k \in 1..Len(raw) |-> get_innermost_content(raw[k])])

\* The loop of lines 108-111 from index i: the first index whose answer is
\* equivalent to the ground truth, or 0.
RECURSIVE FirstMatchFrom(_, _, _)
FirstMatchFrom(innermost_answers, truth, i) ==
  IF i > Len(innermost_answers) THEN 0
  ELSE IF is_equiv(innermost_answers[i], truth) THEN i
  ELSE FirstMatchFrom(innermost_answers, truth, i + 1)

\* Lines 105-126 checking the last answer where the code checks the next one.
EarlyStoppingOnLast(innermost_answers, truth) ==
  LET num_answers == Len(innermost_answers)
      first_match_idx == FirstMatchFrom(innermost_answers, truth, 1)
  IN IF first_match_idx = 0 THEN 0
     ELSE IF first_match_idx = num_answers THEN 10
     ELSE IF is_equiv(innermost_answers[num_answers], truth) THEN 1
     ELSE 0

\* Lines 105-126 on the non-empty answers; first_match_idx is 1-based, 0 for -1.
EarlyStoppingOn(innermost_answers, truth) ==
  LET num_answers == Len(innermost_answers)
      first_match_idx == FirstMatchFrom(innermost_answers, truth, 1)
  IN IF first_match_idx = 0 THEN 0
     ELSE IF first_match_idx = num_answers THEN 10
     ELSE IF first_match_idx + 1 <= num_answers
             /\ is_equiv(innermost_answers[first_match_idx + 1], truth)
     THEN 1
     ELSE 0

\* early_stopping_reward, in tenths
early_stopping_reward(solution, truth) ==
  LET innermost_answers == InnermostAnswers(solution) IN
  IF innermost_answers = <<>> THEN Ok(0)
  ELSE Ok(EarlyStoppingOn(innermost_answers, truth))

----------------------------------------------------------------------------
(* solution_parsing_nl *)

\* re.split(f"({pattern})", solution_str, flags=re.IGNORECASE) from index i:
\* text, delimiter, text, ..., text.  At each index the first cue of the
\* alternation that matches is taken.  Cues are non-empty strings.
RECURSIVE ReSplitFrom(_, _, _, _)
ReSplitFrom(s, cues, i, cur) ==
  IF i > Len(s) THEN <<cur>>
  ELSE LET m == {c \in 1..Len(cues) : MatchAtIgnoreCase(s, cues[c], i)} IN
       IF m = {} THEN ReSplitFrom(s, cues, i + 1, Append(cur, s[i]))
       ELSE LET n == Len(cues[Min(m)]) IN
            <<cur, SubSeq(s, i, i + n - 1)>> \o ReSplitFrom(s, cues, i + n, <<>>)

\* The loop of lines 42-52 appending segments without strip().
RECURSIVE SegmentsLoopUntrimmed(_, _, _, _, _)
SegmentsLoopUntrimmed(parts, cues, k, current_segment, result) ==
  IF k > Len(parts)
  THEN IF Strip(current_segment) # <<>> THEN Append(result, current_segment)
       ELSE result
  ELSE LET part == parts[k]
           is_delimiter == \E c \in 1..Len(cues) : Lower(cues[c]) = Lower(part)
       IN IF (k - 1) % 2 = 1 /\ is_delimiter
          THEN SegmentsLoopUntrimmed(parts, cues, k + 1, <<>>,
                 IF Strip(current_segment) # <<>>
                 THEN Append(result, current_segment) ELSE result)
          ELSE SegmentsLoopUntrimmed(parts, cues, k + 1, current_segment \o part, result)

\* The loop of lines 42-49 from parts[k] on (k is Python's i + 1), followed
\* by lines 51-52.
RECURSIVE SegmentsLoop(_, _, _, _, _)
SegmentsLoop(parts, cues, k, current_segment, result) ==
  IF k > Len(parts)
  THEN IF Strip(current_segment) # <<>> THEN Append(result, Strip(current_segment))
       ELSE result
  ELSE LET part == parts[k]
           is_delimiter == \E c \in 1..Len(cues) : Lower(cues[c]) = Lower(part)
       IN IF (k - 1) % 2 = 1 /\ is_delimiter
          THEN SegmentsLoop(parts, cues, k + 1, <<>>,
                 IF Strip(current_segment) # <<>>
                 THEN Append(result, Strip(current_segment)) ELSE result)
          ELSE SegmentsLoop(parts, cues, k + 1, current_segment \o part, result)

solution_parsing_nl(solution, cues) ==
  IF solution = None \/ solution = <<>> THEN <<>>
  ELSE IF cues = None \/ cues = <<>> THEN <<solution>>
  ELSE NonEmpty(SegmentsLoop(ReSplitFrom(solution, cues, 1, <<>>), cues, 1, <<>>, <<>>))

----------------------------------------------------------------------------
(* difflib.SequenceMatcher(None, a, b).ratio() > similarity_threshold.      *)
(* Below 200 characters difflib treats no character as junk.               *)

\* Length of the common run of a from i and b from j, inside a[..ahi], b[..bhi].
RECURSIVE RunLength(_, _, _, _, _, _)
RunLength(a, b, i, j, ahi, bhi) ==
  IF i > ahi \/ j > bhi THEN 0
  ELSE IF a[i] # b[j] THEN 0
  ELSE 1 + RunLength(a, b, i + 1, j + 1, ahi, bhi)

\* find_longest_match on a[alo..ahi], b[blo..bhi]: <<i, j, k>>, the longest
\* block, the earliest in a and then the earliest in b among the longest.
FindLongestMatch(a, b, alo, ahi, blo, bhi) ==
  LET pairs == (alo..ahi) \X (blo..bhi)
      size == [p \in pairs |-> RunLength(a, b, p[1], p[2], ahi, bhi)]
      k == IF pairs = {} THEN 0 ELSE Max({size[p] : p \in pairs})
  IN IF k = 0 THEN <<alo, blo, 0>>
     ELSE LET i == Min({p[1] : p \in {q \in pairs : size[q] = k}})
              j == Min({p[2] : p \in {q \in pairs : size[q] = k /\ q[1] = i}})
          IN <<i, j, k>>

\* Sum of the sizes of get_matching_blocks on a[alo..ahi], b[blo..bhi].
RECURSIVE MatchedChars(_, _, _, _, _, _)
MatchedChars(a, b, alo, ahi, blo, bhi) ==
  IF alo > ahi \/ blo > bhi THEN 0
  ELSE LET m == FindLongestMatch(a, b, alo, ahi, blo, bhi) IN
       IF m[3] = 0 THEN 0
       ELSE m[3] + MatchedChars(a, b, alo, m[1] - 1, blo, m[2] - 1)
                 + MatchedChars(a, b, m[1] + m[3], ahi, m[2] + m[3], bhi)

\* similarity_threshold of backtrack_repetition_loss, in tenths
SimilarityThresholdTenths == 7

\* ratio() = 2.0 * matches / (len(a) + len(b)), 1.0 for two empty strings
Similar(a, b) ==
  IF Len(a) + Len(b) = 0 THEN 10 > SimilarityThresholdTenths
  ELSE 20 * MatchedChars(a, b, 1, Len(a), 1, Len(b))
         > SimilarityThresholdTenths * (Len(a) + Len(b))

----------------------------------------------------------------------------
(* backtrack_repetition_loss *)

\* The fixed penalty of line 85 and the floor of line 88, in tenths
PenaltyTenths == 3

FloorTenths == -10

\* The inner loop of lines 77-86 from j on: whether segment i is penalised.
RECURSIVE PenalisedFrom(_, _, _)
PenalisedFrom(normalized_segments, i, j) ==
  IF j >= i THEN FALSE
  ELSE IF normalized_segments[j] = <<>> THEN PenalisedFrom(normalized_segments, i, j + 1)
  ELSE IF Similar(normalized_segments[i], normalized_segments[j]) THEN TRUE
  ELSE PenalisedFrom(normalized_segments, i, j + 1)

\* The outer loop of lines 71-86 from i on: total_penalty_score.
RECURSIVE PenaltyLoop(_, _, _)
PenaltyLoop(normalized_segments, i, total_penalty_score) ==
  IF i > Len(normalized_segments) THEN total_penalty_score
  ELSE IF normalized_segments[i] = <<>>
  THEN PenaltyLoop(normalized_segments, i + 1, total_penalty_score)
  ELSE IF PenalisedFrom(normalized_segments, i, 1)
  THEN PenaltyLoop(normalized_segments, i + 1, total_penalty_score - PenaltyTenths)
  ELSE PenaltyLoop(normalized_segments, i + 1, total_penalty_score)

\* Line 88 without its floor.
FinalScoreNoFloor(total_penalty_score) == total_penalty_score

\* Line 88: max(-1.0, total_penalty_score)
FinalScore(total_penalty_score) ==
  IF total_penalty_score < FloorTenths THEN FloorTenths ELSE total_penalty_score

\* backtrack_repetition_loss, in tenths; raises what strip_string raises
backtrack_repetition_loss(solution) ==
  LET segs == solution_parsing_nl(solution, BACKTRACK_CUES) IN
  IF Len(segs) < 2 THEN Ok(0)
  ELSE LET stripped == [k \in 1..Len(segs) |-> strip_string(segs[k])]
           failed == {k \in 1..Len(segs) : ~stripped[k].ok}
       IN IF failed # {} THEN stripped[Min(failed)]
          ELSE Ok(FinalScore(PenaltyLoop([k \in 1..Len(segs) |-> stripped[k].val], 2, 0)))

----------------------------------------------------------------------------
(* Inputs *)

\* All concatenations of at most n pieces of vocab.
RECURSIVE Words(_, _)
Words(vocab, n) ==
  IF n = 0 THEN {<<>>}
  ELSE LET shorter == Words(vocab, n - 1) IN
       shorter \cup {w \o p : w \in shorter, p \in vocab}

Boxed4 == BOXED_BRACE \o <<"4", "}">>

Boxed5 == BOXED_BRACE \o <<"5", "}">>

MaxMarkerPieces == 3

\* Transcripts that exercise the markers, well formed and malformed.
MarkerPieces ==
  {Boxed4, Boxed5, BOXED, FBOX, <<"{">>, <<"}">>, <<" ">>, <<"$">>, <<"4">>,
   <<"{", "4", "}">>}

MaxSegments == 5

\* Transcripts of cue-separated segments, some alike, one that normalises
\* to the empty string.
SegmentTexts == {<<"a", "b">>, <<"a", "b", "c">>, <<Backslash, "!">>}

RECURSIVE SegmentTranscripts(_)
SegmentTranscripts(n) ==
  IF n <= 1 THEN SegmentTexts
  ELSE LET shorter == SegmentTranscripts(n - 1) IN
       shorter \cup {w \o Cue5 \o p : w \in shorter, p \in SegmentTexts}

MaxMixedPieces == 4

\* Transcripts that mix answers, cues and text strip_string fails on.
MixedPieces == {Boxed4, Cue5, SQRT, TEXT_UNITS \o <<"m">>}

GroundTruths == {<<"4">>, <<>>}

NotCalled == [ok |-> FALSE, val |-> <<>>, exc |-> "<not called>"]

----------------------------------------------------------------------------
(* compute_score, one step per statement of its try block *)

Init ==
  /\ \/ /\ solution_str \in Words(MarkerPieces, MaxMarkerPieces)
                              \cup SegmentTranscripts(MaxSegments)
        /\ ground_truth = <<"4">>
     \/ /\ solution_str \in Words(MixedPieces, MaxMixedPieces)
        /\ ground_truth \in GroundTruths
  /\ backtrack_cues = BACKTRACK_CUES
  /\ pc = "acc_score"
  /\ score = 0
  /\ string_in_last_boxed = Unset
  /\ acc = NotCalled /\ early = NotCalled /\ rep = NotCalled /\ ret = NotCalled
  /\ segments = Unset
  /\ str1 = Unset /\ str2 = Unset
  /\ ss1 = NotCalled /\ ss11 = NotCalled
  /\ eq12 = NotCalled /\ eq21 = NotCalled /\ eq11 = NotCalled

\* `except Exception` catches every exception the pipeline raises.
CaughtByExceptException(exc) == exc \in {"ValueError", "IndexError", "AssertionError"}

\* The except clause returning the credit accumulated so far.
ExceptReturnKeepsScore(sc) == sc

\* What compute_score returns from its except clause (line 21).
ExceptReturn(sc) == 0

\* score += r, or the jump to the except clause
AddOrExcept(r, next) ==
  IF r.ok THEN score' = score + r.val /\ pc' = next
  ELSE score' = score /\ pc' = "except"

\* Line 17
AccScoreStep ==
  /\ pc = "acc_score"
  /\ string_in_last_boxed' = last_boxed_only_string(solution_str)
  /\ acc' = acc_score(solution_str, ground_truth)
  /\ AddOrExcept(acc', "early_stopping_reward")
  /\ UNCHANGED <<solution_str, ground_truth, backtrack_cues, early, rep, ret,
                 segments, str1, str2, ss1, ss11, eq12, eq21, eq11>>

\* Line 18
EarlyStoppingStep ==
  /\ pc = "early_stopping_reward"
  /\ early' = early_stopping_reward(solution_str, ground_truth)
  /\ AddOrExcept(early', "backtrack_repetition_loss")
  /\ UNCHANGED <<solution_str, ground_truth, backtrack_cues, string_in_last_boxed,
                 acc, rep, ret, segments, str1, str2, ss1, ss11, eq12, eq21, eq11>>

\* Line 19
BacktrackRepetitionStep ==
  /\ pc = "backtrack_repetition_loss"
  /\ segments' = solution_parsing_nl(solution_str, backtrack_cues)
  /\ rep' = backtrack_repetition_loss(solution_str)
  /\ AddOrExcept(rep', "return")
  /\ UNCHANGED <<solution_str, ground_truth, backtrack_cues, string_in_last_boxed,
                 acc, early, ret, str1, str2, ss1, ss11, eq12, eq21, eq11>>

\* The exception in flight when control reaches the except clause.
Pending == IF ~acc.ok THEN acc ELSE IF ~early.ok THEN early ELSE rep

\* Lines 20-21
ExceptStep ==
  /\ pc = "except"
  /\ ret' = IF CaughtByExceptException(Pending.exc) THEN Ok(ExceptReturn(score))
            ELSE Pending
  /\ pc' = "done"
  /\ UNCHANGED <<solution_str, ground_truth, backtrack_cues, score,
                 string_in_last_boxed, acc, early, rep, segments,
                 str1, str2, ss1, ss11, eq12, eq21, eq11>>

\* Line 23
ReturnStep ==
  /\ pc = "return"
  /\ ret' = Ok(score)
  /\ pc' = "done"
  /\ UNCHANGED <<solution_str, ground_truth, backtrack_cues, score,
                 string_in_last_boxed, acc, early, rep, segments,
                 str1, str2, ss1, ss11, eq12, eq21, eq11>>

Next ==
  \/ AccScoreStep
  \/ EarlyStoppingStep
  \/ BacktrackRepetitionStep
  \/ ExceptStep
  \/ ReturnStep

Spec == Init /\ [][Next]_vars

----------------------------------------------------------------------------
(* last_boxed_only_string on its own *)

MaxBracePieces == 5

BracePieces == {BOXED, FBOX, <<"{">>, <<"}">>, <<" ">>, <<"$">>, <<"4">>}

InitLastBoxed ==
  /\ solution_str \in Words(BracePieces, MaxBracePieces)
  /\ ground_truth = Unset
  /\ backtrack_cues = Unset
  /\ pc = "last_boxed_only_string"
  /\ score = 0
  /\ string_in_last_boxed = Unset
  /\ acc = NotCalled /\ early = NotCalled /\ rep = NotCalled /\ ret = NotCalled
  /\ segments = Unset
  /\ str1 = Unset /\ str2 = Unset
  /\ ss1 = NotCalled /\ ss11 = NotCalled
  /\ eq12 = NotCalled /\ eq21 = NotCalled /\ eq11 = NotCalled

LastBoxedOnlyStringStep ==
  /\ pc = "last_boxed_only_string"
  /\ string_in_last_boxed' = last_boxed_only_string(solution_str)
  /\ pc' = "done"
  /\ UNCHANGED <<solution_str, ground_truth, backtrack_cues, score, acc, early, rep,
                 ret, segments, str1, str2, ss1, ss11, eq12, eq21, eq11>>

SpecLastBoxed == InitLastBoxed /\ [][LastBoxedOnlyStringStep]_vars

----------------------------------------------------------------------------
(* solution_parsing_nl on its own *)

MaxSplitPieces == 4

\* "hMM..." differs from a cue in case only; the last piece is the third cue
\* with U+0131 for its "i", which the pattern matches and lower() does not.
SplitPieces ==
  {Cue5, <<"h", "M", "M", ".", ".", ".">>, <<" ">>, <<"\n">>, <<"a">>,
   <<"A","l","t","e","r","n","a","t",DotlessI,"v","e","l","y",".",".",".">>}

CueLists == {<<>>, None, BACKTRACK_CUES, <<Cue5, <<"a">> >>}

InitSplit ==
  /\ solution_str \in Words(SplitPieces, MaxSplitPieces) \cup {None}
  /\ ground_truth = Unset
  /\ backtrack_cues \in CueLists
  /\ pc = "solution_parsing_nl"
  /\ score = 0
  /\ string_in_last_boxed = Unset
  /\ acc = NotCalled /\ early = NotCalled /\ rep = NotCalled /\ ret = NotCalled
  /\ segments = Unset
  /\ str1 = Unset /\ str2 = Unset
  /\ ss1 = NotCalled /\ ss11 = NotCalled
  /\ eq12 = NotCalled /\ eq21 = NotCalled /\ eq11 = NotCalled

SolutionParsingNlStep ==
  /\ pc = "solution_parsing_nl"
  /\ segments' = solution_parsing_nl(solution_str, backtrack_cues)
  /\ pc' = "done"
  /\ UNCHANGED <<solution_str, ground_truth, backtrack_cues, score,
                 string_in_last_boxed, acc, early, rep, ret,
                 str1, str2, ss1, ss11, eq12, eq21, eq11>>

SpecSplit == InitSplit /\ [][SolutionParsingNlStep]_vars

----------------------------------------------------------------------------
(* strip_string applied once and again *)

MaxNormPieces == 3

NormPieces ==
  {<<Backslash>>, <<".">>, <<"5">>, <<"=">>, <<"x">>, <<"1">>, <<"/">>, <<"2">>,
   <<"{">>, <<" ">>, <<"t">>, DFRAC, <<"0">>, SQRT}

InitNorm ==
  /\ solution_str = Unset
  /\ ground_truth = Unset
  /\ backtrack_cues = Unset
  /\ pc = "strip_string"
  /\ score = 0
  /\ string_in_last_boxed = Unset
  /\ acc = NotCalled /\ early = NotCalled /\ rep = NotCalled /\ ret = NotCalled
  /\ segments = Unset
  /\ str1 \in Words(NormPieces, MaxNormPieces)
  /\ str2 = Unset
  /\ ss1 = NotCalled /\ ss11 = NotCalled
  /\ eq12 = NotCalled /\ eq21 = NotCalled /\ eq11 = NotCalled

StripStringStep ==
  /\ pc = "strip_string"
  /\ ss1' = strip_string(str1)
  /\ pc' = IF ss1'.ok THEN "strip_string_again" ELSE "done"
  /\ UNCHANGED <<solution_str, ground_truth, backtrack_cues, score,
                 string_in_last_boxed, acc, early, rep, ret, segments,
                 str1, str2, ss11, eq12, eq21, eq11>>

StripStringAgainStep ==
  /\ pc = "strip_string_again"
  /\ ss11' = strip_string(ss1.val)
  /\ pc' = "done"
  /\ UNCHANGED <<solution_str, ground_truth, backtrack_cues, score,
                 string_in_last_boxed, acc, early, rep, ret, segments,
                 str1, str2, ss1, eq12, eq21, eq11>>

NextNorm == StripStringStep \/ StripStringAgainStep

SpecNorm == InitNorm /\ [][NextNorm]_vars

----------------------------------------------------------------------------
(* is_equiv on a pair, on the swapped pair and on one argument twice *)

MaxEquivPieces == 2

EquivPieces ==
  {SQRT, <<"1", "/", "2">>, <<"0", ".", "5">>, <<" ">>, TEXT_UNITS \o <<"m">>}

EquivArguments == Words(EquivPieces, MaxEquivPieces) \cup {None}

InitEquiv ==
  /\ solution_str = Unset
  /\ ground_truth = Unset
  /\ backtrack_cues = Unset
  /\ pc = "is_equiv"
  /\ score = 0
  /\ string_in_last_boxed = Unset
  /\ acc = NotCalled /\ early = NotCalled /\ rep = NotCalled /\ ret = NotCalled
  /\ segments = Unset
  /\ str1 \in EquivArguments
  /\ str2 \in EquivArguments
  /\ ss1 = NotCalled /\ ss11 = NotCalled
  /\ eq12 = NotCalled /\ eq21 = NotCalled /\ eq11 = NotCalled

IsEquivStep ==
  /\ pc = "is_equiv"
  /\ eq12' = Ok(is_equiv(str1, str2))
  /\ pc' = "is_equiv_swapped"
  /\ UNCHANGED <<solution_str, ground_truth, backtrack_cues, score,
                 string_in_last_boxed, acc, early, rep, ret, segments,
                 str1, str2, ss1, ss11, eq21, eq11>>

IsEquivSwappedStep ==
  /\ pc = "is_equiv_swapped"
  /\ eq21' = Ok(is_equiv(str2, str1))
  /\ pc' = "is_equiv_self"
  /\ UNCHANGED <<solution_str, ground_truth, backtrack_cues, score,
                 string_in_last_boxed, acc, early, rep, ret, segments,
                 str1, str2, ss1, ss11, eq12, eq11>>

IsEquivSelfStep ==
  /\ pc = "is_equiv_self"
  /\ eq11' = Ok(is_equiv(str1, str1))
  /\ pc' = "done"
  /\ UNCHANGED <<solution_str, ground_truth, backtrack_cues, score,
                 string_in_last_boxed, acc, early, rep, ret, segments,
                 str1, str2, ss1, ss11, eq12, eq21>>

NextEquiv == IsEquivStep \/ IsEquivSwappedStep \/ IsEquivSelfStep

SpecEquiv == InitEquiv /\ [][NextEquiv]_vars

----------------------------------------------------------------------------
(* Properties of compute_score (specification Spec) *)

Done == pc = "done"

\* Claim C1: compute_score never raises to its caller; it returns the sum
\* accuracy + early_stop + repetition_penalty when all three sub-scores
\* complete, and exactly 0.0, whatever credit was accumulated, when one of
\* them raises.
C1_NeverRaisesSumOrZero ==
  Done =>
    LET a == acc_score(solution_str, ground_truth)
        e == early_stopping_reward(solution_str, ground_truth)
        r == backtrack_repetition_loss(solution_str)
    IN /\ ret.ok
       /\ IF a.ok /\ e.ok /\ r.ok THEN ret.val = a.val + e.val + r.val
          ELSE ret.val = 0

\* A call in which accuracy and early stopping both gave full credit, the
\* repetition penalty raised, and the call returned 0.0.
C1_Witness ==
  /\ Done
  /\ acc = Ok(10) /\ early = Ok(10) /\ ~rep.ok /\ score = 20
  /\ ret = Ok(0)

\* Claim C2: the value compute_score returns lies in [-1.0, 2.0]: accuracy is
\* 0.0 or 1.0, early stopping is 0.0, 0.1 or 1.0, the repetition penalty is
\* in [-1.0, 0.0].
C2_ScoreInRange ==
  Done =>
    /\ ret.ok /\ ret.val \in -10..20
    /\ acc.ok => acc.val \in {0, 10}
    /\ early.ok => early.val \in {0, 1, 10}
    /\ rep.ok => rep.val \in -10..0

\* A call whose repetition penalty sits on the floor and whose return value
\* is the lowest of the range.
C2_Witness == Done /\ rep = Ok(-10) /\ ret = Ok(-10)

\* Claim C3: accuracy is 1.0 exactly when last_boxed_only_string finds an
\* expression, removing exactly one wrapper layer from it succeeds and the
\* stripped text is equivalent to the ground truth; otherwise it is 0.0, and
\* no failure leaves acc_score.
C3_AccuracyExactlyWhen ==
  pc # "acc_score" =>
    LET found == string_in_last_boxed # None
        answer == remove_boxed(string_in_last_boxed)
    IN /\ acc.ok
       /\ acc.val = IF found /\ answer.ok /\ is_equiv(answer.val, ground_truth)
                    THEN 10 ELSE 0

\* An expression was found whose wrapper is malformed: accuracy is 0.0 and
\* the ValueError of remove_boxed went no further.
C3_Witness ==
  /\ pc # "acc_score"
  /\ string_in_last_boxed # None
  /\ ~remove_boxed(string_in_last_boxed).ok
  /\ acc = Ok(0)

\* The answers of claim C4: the non-empty innermost answers, in order.
C4_Answers == InnermostAnswers(solution_str)

C4_Matches == {i \in 1..Len(C4_Answers) : is_equiv(C4_Answers[i], ground_truth)}

\* Claim C4: with A the non-empty innermost answers in transcript order and k
\* the smallest index with A[k] equivalent to the ground truth, early_stop is
\* 0.0 if there is no such k, 1.0 if k is the last index, 0.1 if A[k+1] is
\* equivalent too, 0.0 otherwise; answers after k+1 do not matter.
C4_EarlyStopCases ==
  early # NotCalled =>
    /\ early.ok
    /\ IF C4_Matches = {} THEN early.val = 0
       ELSE LET k == Min(C4_Matches) IN
            IF k = Len(C4_Answers) THEN early.val = 10
            ELSE /\ early.val = IF k + 1 \in C4_Matches THEN 1 ELSE 0
                 /\ \A n \in (k + 1)..Len(C4_Answers) :
                      early.val = EarlyStoppingOn(SubSeq(C4_Answers, 1, n), ground_truth)

\* The first match is followed by an equivalent answer and then by one that
\* is not equivalent: the score is 0.1.
C4_Witness ==
  /\ early = Ok(1)
  /\ Len(C4_Answers) >= 3
  /\ Min(C4_Matches) + 2 <= Len(C4_Answers)
  /\ Min(C4_Matches) + 2 \notin C4_Matches

\* The normalized segments of claim C5 (each an outcome of strip_string).
C5_Normalized == [k \in 1..Len(segments) |-> strip_string(segments[k])]

\* The segments from the second onward whose normalized form is non-empty
\* and similar to a preceding non-empty normalized segment.
C5_Penalised ==
  {i \in 2..Len(segments) :
     /\ C5_Normalized[i].ok /\ C5_Normalized[i].val # <<>>
     /\ \E j \in 1..(i - 1) :
          /\ C5_Normalized[j].ok /\ C5_Normalized[j].val # <<>>
          /\ Similar(C5_Normalized[i].val, C5_Normalized[j].val)}

C5_Expected == Max({-10, 0 - 3 * Cardinality(C5_Penalised)})

\* Claim C5: with at least 2 segments the repetition penalty equals
\* max(-1.0, -0.3 * n), n the number of penalised segments; with fewer than 2
\* it is 0.0. (backtrack_repetition_loss raises instead when strip_string
\* fails on a segment.)
C5_PenaltyCountsSegments ==
  rep # NotCalled =>
    IF Len(segments) < 2 THEN rep = Ok(0) ELSE rep = Ok(C5_Expected)

----------------------------------------------------------------------------
(* Properties of strip_string (specification SpecNorm) *)

\* Claim C6 as stated: whenever strip_string succeeds on s, applying it to
\* the result succeeds and changes nothing.
C6_Original == (Done /\ ss1.ok) => ss11 = ss1

\* A string without backslash, space, line break or "=", and without the
\* aliases tfrac and dfrac.
C6_Plain(s) ==
  /\ \A k \in 1..Len(s) : s[k] \notin {Backslash, " ", "\n", "="}
  /\ ~Contains(s, TFRAC)
  /\ ~Contains(s, DFRAC)

\* Claim C6 as amended: strip_string is idempotent on the strings that hold
\* no backslash, no whitespace, no "=" and neither tfrac nor dfrac.
C6_IdempotentOnPlain == (Done /\ ss1.ok /\ C6_Plain(str1)) => ss11 = ss1

\* A plain string that strip_string rewrote into a fraction, and left alone
\* the second time.
C6_Witness ==
  Done /\ C6_Plain(str1) /\ ss1.ok /\ StartsWith(ss1.val, FRAC) /\ ss11 = ss1

----------------------------------------------------------------------------
(* Properties of is_equiv (specification SpecEquiv) *)

\* Claim C7: is_equiv is reflexive on every non-null string and symmetric on
\* every pair, also when strip_string fails and raw equality decides.
C7_ReflexiveSymmetric ==
  Done => /\ eq12 = eq21
          /\ str1 # None => eq11 = Ok(TRUE)

\* strip_string fails on the first argument only, and raw equality made the
\* pair inequivalent in both orders while the argument equals itself.
C7_Witness ==
  /\ Done
  /\ str1 # None /\ str2 # None
  /\ ~strip_string(str1).ok /\ strip_string(str2).ok
  /\ eq12 = Ok(FALSE) /\ eq21 = Ok(FALSE) /\ eq11 = Ok(TRUE)

----------------------------------------------------------------------------
(* Properties of last_boxed_only_string (specification SpecLastBoxed) *)

Returned == Done /\ string_in_last_boxed # None

\* Index of the rightmost occurrence of either marker keyword.
C8_LastMarker == Max({RFind(solution_str, BOXED), RFind(solution_str, FBOX)})

\* Claim C8 as stated: a returned expression begins at the rightmost
\* occurrence of either marker keyword.
C8_Original ==
  Returned => MatchAt(solution_str, string_in_last_boxed, C8_LastMarker)

\* Where the code looks: the last "\boxed " if there is one, else the last
\* \boxed, else the last \fbox.
C8_Start ==
  IF Contains(solution_str, BOXED_SPACE) THEN RFind(solution_str, BOXED_SPACE)
  ELSE IF Contains(solution_str, BOXED) THEN RFind(solution_str, BOXED)
  ELSE RFind(solution_str, FBOX)

\* Claim C8 as amended: a returned expression begins at the last occurrence
\* of the space form "\boxed " when the transcript holds one, otherwise at
\* the last \boxed, and at the last \fbox only when there is no \boxed.
C8_BeginsAtChosenMarker ==
  Returned =>
    /\ C8_Start # 0
    /\ MatchAt(solution_str, string_in_last_boxed, C8_Start)
    /\ StartsWith(string_in_last_boxed, BOXED) \/ StartsWith(string_in_last_boxed, FBOX)

\* The space form won over a brace form that comes after it.
C8_Witness ==
  /\ Returned
  /\ Contains(solution_str, BOXED_SPACE)
  /\ RFind(solution_str, BOXED_BRACE) > RFind(solution_str, BOXED_SPACE)
  /\ C8_Start < C8_LastMarker

\* Brace depth after the first n characters of s.
RECURSIVE Depth(_, _)
Depth(s, n) ==
  IF n = 0 THEN 0
  ELSE Depth(s, n - 1) + (IF s[n] = "{" THEN 1 ELSE IF s[n] = "}" THEN -1 ELSE 0)

Balanced(s) == Depth(s, Len(s)) = 0 /\ \A n \in 0..Len(s) : Depth(s, n) >= 0

\* Claim C9: on the brace path a returned expression runs from the marker to
\* a closing brace and has balanced braces, the depth never negative inside
\* it and zero at its end; nothing is returned when no balanced close exists.
C9_BalancedBraces ==
  (Done /\ ~Contains(solution_str, BOXED_SPACE)) =>
    IF string_in_last_boxed # None
    THEN /\ EndsWith(string_in_last_boxed, <<"}">>)
         /\ Balanced(string_in_last_boxed)
    ELSE C8_Start # 0 =>
           \A e \in C8_Start..Len(solution_str) :
             ~(Balanced(SubSeq(solution_str, C8_Start, e)) /\ solution_str[e] = "}")

----------------------------------------------------------------------------
(* Properties of solution_parsing_nl (specification SpecSplit) *)

\* The segments occur in s from index from on, in order, without overlap.
RECURSIVE InOrder(_, _, _)
InOrder(s, segs, from) ==
  IF segs = <<>> THEN TRUE
  ELSE LET at == Find(s, segs[1], from) IN
       at # 0 /\ InOrder(s, Drop(segs, 1), at + Len(segs[1]))

C10_Trimmed ==
  /\ \A k \in 1..Len(segments) : segments[k] # <<>> /\ Strip(segments[k]) = segments[k]
  /\ solution_str # None => InOrder(solution_str, segments, 1)

\* Claim C10 as stated: for every transcript and every cue list the segments
\* come in transcript order and none is empty, whitespace-only or untrimmed.
C10_Original == Done => C10_Trimmed

\* Claim C10 as amended: so it is for every non-empty cue list; with an
\* empty or absent cue list a non-empty transcript comes back whole, as one
\* segment, untrimmed.
C10_NoEmptySegment ==
  Done =>
    IF solution_str = None \/ solution_str = <<>> THEN segments = <<>>
    ELSE IF backtrack_cues = None \/ backtrack_cues = <<>> THEN segments = <<solution_str>>
    ELSE C10_Trimmed

\* A transcript that starts with a cue, holds two cues in a row and
\* whitespace around its text: one trimmed segment comes back.
C10_Witness ==
  /\ Done
  /\ backtrack_cues = BACKTRACK_CUES
  /\ solution_str # None
  /\ StartsWith(solution_str, Cue5)
  /\ Contains(solution_str, Cue5 \o Cue5)
  /\ Len(segments) = 1
  /\ Len(segments[1]) < Len(solution_str) - 2 * Len(Cue5)

====
